---- MODULE Spec2Model ----
(***************************************************************************)
(* PDF-to-text service: the upload / background pipeline / result / download *)
(* handlers of app/main.py, the library pipeline run_ocr of                 *)
(* app/ocr_utils.py and the command-line pipeline main of ocr_utils.py.     *)
(***************************************************************************)
EXTENDS Integers, Sequences, FiniteSets, TLC

\* ---------------------------------------------------------------- bounds
MaxTasks == 2      \* uploads accepted in one run of the web application
MaxPages == 2      \* pages of a PDF
MaxSaves == 2      \* calls of save_results on one output directory

\* ------------------------------------------------------ program constants
MaxUploadBytes == 52428800
HTTP_303 == 303
HTTP_400 == 400
HTTP_404 == 404
HTTP_413 == 413
HTTP_500 == 500
HTTP_200 == 200

VARIABLES
    mode,       \* which entry point runs: "web", "lib" (run_ocr), "cli" (main)
    nextId,     \* web: the next fresh uuid4
    uploadDir,  \* web: ids whose source file <id>_<filename> is in UPLOAD_DIR
    outDir,     \* web: names of the files in OUT_DIR
    task,       \* web: the process_pdf coroutine of each id
    resp,       \* web: the request last served and its response
    ro,         \* lib: the frame of run_ocr
    roDir,      \* lib: out_dir of run_ocr
    cli,        \* cli: the frame of main
    fn          \* fn: one call of a classifier, is_pdf_textual

vars == <<mode, nextId, uploadDir, outDir, task, resp, ro, roDir, cli, fn>>
webVars == <<nextId, uploadDir, outDir, task, resp>>
libVars == <<ro, roDir>>

\* ----------------------------------------------------------------- values
Ids == 1..MaxTasks
\* a document of n pages; the bitmap of its k-th page is k
Images == 1..MaxPages
Rendered(n) == [k \in 1..n |-> k]
PageCounts == 0..MaxPages
None == "None"

\* names in UPLOAD_DIR and OUT_DIR: <<file_id, suffix>>
UploadName(id) == <<id, "upload.pdf">>
FNames == Ids \X {"result.txt", "result.json", "upload.pdf"}

ContentTypes == {"application/pdf", "text/plain"}
Sizes == {MaxUploadBytes, MaxUploadBytes + 1}
KnownBackends == {"easyocr", "qwen"}
BackendNames == {"easyocr", "bogus"}

\* ------------------------------------------------------ text and detections
NL == 10

RECURSIVE Join(_, _)
\* sep.join(parts) on strings (sequences of characters)
Join(parts, sep) ==
    IF Len(parts) = 0 THEN <<>>
    ELSE IF Len(parts) = 1 THEN parts[1]
    ELSE parts[1] \o sep \o Join(Tail(parts), sep)

IsSpace(c) == c \in {NL, 32}

RECURSIVE LStrip(_)
LStrip(s) == IF Len(s) > 0 /\ IsSpace(s[1]) THEN LStrip(Tail(s)) ELSE s

RECURSIVE RStrip(_)
RStrip(s) ==
    IF Len(s) > 0 /\ IsSpace(s[Len(s)]) THEN RStrip(SubSeq(s, 1, Len(s) - 1)) ELSE s

\* str.strip()
Strip(s) == RStrip(LStrip(s))

\* page.extract_text() or "": the text layer of page k (page 1 has none)
PageText(k) == [j \in 1..(k - 1) |-> 64 + k]

\* reader.readtext(img, detail=1): [bbox, text, confidence] per text region of bitmap k
ReadText(img) == [j \in 1..(img - 1) |-> <<j, <<96 + img, 48 + j>>, 1>>]

\* ------------------------------------------------------------ is_pdf_textual
MinChars == 20

Chars(c, n) == [k \in 1..n |-> c]

\* what page.extract_text() gives: <<>> is None, <<s>> is the string s
NoText == <<>>
Padded(lead, core, trail) == <<Chars(32, lead) \o Chars(88, core) \o Chars(NL, trail)>>
PageLayers ==
    {NoText, Padded(0, 0, 0), Padded(1, 0, 1),
     Padded(0, MinChars - 1, 0), Padded(1, MinChars - 1, 1),
     Padded(0, MinChars, 0), Padded(1, MinChars, 1)}

\* a file handed to a classifier: how opening / parsing it goes, and the text
\* layer of each of its pages
FileConds == {"ok", "PdfReadError", "FileNotFoundError", "PermissionError"}
OkFiles ==
    {[cond |-> "ok", pages |-> p] :
        p \in {<<>>} \cup {<<a>> : a \in PageLayers}
                     \cup {<<a, b>> : a \in PageLayers, b \in PageLayers}}
Files == OkFiles \cup {[cond |-> c, pages |-> <<>>] : c \in FileConds \ {"ok"}}

\* what PdfReader(path) / reader.pages[idx] raise ("none": nothing)
ReadRaises(file, idx) ==
    IF file.cond # "ok" THEN file.cond
    ELSE IF Len(file.pages) < idx + 1 THEN "IndexError"
    ELSE "none"

\* text = first_page.extract_text() or ""
TextOrEmpty(layer) == IF Len(layer) = 0 THEN <<>> ELSE layer[1]

\* except (PdfReadError, IndexError, FileNotFoundError)
CaughtByClassifier == {"PdfReadError", "IndexError", "FileNotFoundError"}

\* app/ocr_utils.py: is_pdf_textual(pdf_path, min_chars): "True", "False" or the
\* exception that reaches the caller
IsPdfTextual(file, min_chars) ==
    LET raised == ReadRaises(file, 0)
    IN IF raised \in CaughtByClassifier THEN "False"
       ELSE IF raised # "none" THEN raised
       ELSE IF Len(Strip(TextOrEmpty(file.pages[1]))) >= min_chars THEN "True"
       ELSE "False"

\* ocr_utils.py: is_pdf_textual(pdf_path): reads reader.pages[1], catches nothing
IsPdfTextualLegacy(file) ==
    LET raised == ReadRaises(file, 1)
    IN IF raised # "none" THEN raised
       ELSE IF file.pages[2] # NoText THEN "True"
       ELSE "False"

\* how a caller's if sees the classifier's outcome
Classified(out) ==
    IF out = "True" THEN "textual" ELSE IF out = "False" THEN "scanned" ELSE "raise"

NoFn == [name |-> "none"]
ClassifierNames == {"app.ocr_utils.is_pdf_textual", "ocr_utils.is_pdf_textual"}

\* one call of a classifier on a file
CallClassifier ==
    /\ mode = "fn"
    /\ fn.out = "pending"
    /\ fn' = [fn EXCEPT !.out = IF fn.name = "app.ocr_utils.is_pdf_textual"
                                 THEN IsPdfTextual(fn.file, MinChars)
                                 ELSE IsPdfTextualLegacy(fn.file)]
    /\ UNCHANGED <<mode, webVars, libVars, cli>>

\* ------------------------------------------------------------- get_result
TxtFilename(file_id) == <<file_id, "result.txt">>
JsonFilename(file_id) == <<file_id, "result.json">>

GetResultViewOr(txtExists, jsonExists) ==
    IF ~txtExists /\ ~jsonExists THEN "not_found" ELSE "links"

\* the template get_result renders from the two exists() tests
GetResultView(txtExists, jsonExists) ==
    IF ~txtExists \/ ~jsonExists THEN "not_found" ELSE "links"

GetResultLinksSource(file_id) == {<<file_id, "upload.pdf">>}

\* txt_filename and json_filename, the names result.html links to /download/
GetResultLinks(file_id) == {TxtFilename(file_id), JsonFilename(file_id)}

NoResp == [op |-> "none"]

get_result(file_id) ==
    /\ mode = "web"
    /\ LET t == TxtFilename(file_id) \in outDir
           j == JsonFilename(file_id) \in outDir
       IN resp' = [op |-> "result", id |-> file_id, sawTxt |-> t, sawJson |-> j,
                   view |-> GetResultView(t, j),
                   links |-> IF GetResultView(t, j) = "links"
                             THEN GetResultLinks(file_id) ELSE {}]
    /\ UNCHANGED <<mode, nextId, uploadDir, outDir, task, ro, roDir, cli, fn>>

\* ---------------------------------------------------------- download_file
DownloadLookupAnyDir(fname) ==
    fname \in outDir \/ (fname = UploadName(fname[1]) /\ fname[1] \in uploadDir)

\* file_path = OUT_DIR / fname; file_path.exists()
DownloadLookup(fname) == fname \in outDir

download_file(fname) ==
    /\ mode = "web"
    /\ resp' = IF ~DownloadLookup(fname)
               THEN [op |-> "download", fname |-> fname, status |-> HTTP_404, served |-> {}]
               ELSE [op |-> "download", fname |-> fname, status |-> HTTP_200, served |-> {fname}]
    /\ UNCHANGED <<mode, nextId, uploadDir, outDir, task, ro, roDir, cli, fn>>

\* ------------------------------------------------------------ process_pdf
\* the frame of one process_pdf coroutine; locals are dropped on return
Absent ==
    [pc |-> "absent", textual |-> "unset", images |-> <<>>, i |-> 0, pages |-> <<>>,
     rasterCalls |-> 0, recogCalls |-> 0, ret |-> "unset", logged |-> FALSE]

CreateTaskNotScheduled == [Absent EXCEPT !.pc = "created"]

\* asyncio.create_task(process_pdf(file_path, file_id))
CreateTask == [Absent EXCEPT !.pc = "start"]

\* except Exception: logging.exception(...); return None, None
ProcessPdfExcept == [Absent EXCEPT !.pc = "returned", !.ret = None, !.logged = TRUE]

\* return txt_path, json_path
ProcessPdfReturn == [Absent EXCEPT !.pc = "returned", !.ret = "paths"]

\* recognize_text_with_qwen(img): the text the backend reads on a bitmap
Qwen(img) == 100 + img

\* extract_text_from_pdf(file_path): the text layer of the document
ExtractTextFromPdf == <<[page |-> 1, text |-> 0]>>

BranchAlwaysOcr(textual) == "raster"

\* if ocr_utils.is_pdf_textual(file_path): ... else: ...
Branch(textual) == IF textual THEN "extract" ELSE "raster"

LoopAppendFront(pages, i, text) == <<[page |-> i + 1, text |-> text]>> \o pages

\* pages.append({"page": i + 1, "text": text})
LoopAppend(pages, i, text) == Append(pages, [page |-> i + 1, text |-> text])

\* the uploaded files, as far as the classifier reads them (the first page)
Uploads == {f \in Files : Len(f.pages) <= 1}

ProcClassify(t) ==
    /\ mode = "web"
    /\ task[t].pc = "start"
    /\ \E file \in Uploads :
         LET r == Classified(IsPdfTextual(file, MinChars))
         IN task' = [task EXCEPT ![t] =
                       IF r = "raise" THEN ProcessPdfExcept
                       ELSE [@ EXCEPT !.textual = r, !.pc = Branch(r = "textual")]]
    /\ UNCHANGED <<mode, nextId, uploadDir, outDir, resp, ro, roDir, cli, fn>>

ProcExtract(t) ==
    /\ mode = "web"
    /\ task[t].pc = "extract"
    /\ \E ok \in BOOLEAN :
         task' = [task EXCEPT ![t] =
                    IF ~ok THEN ProcessPdfExcept
                    ELSE [@ EXCEPT !.pages = ExtractTextFromPdf, !.pc = "collect_txt"]]
    /\ UNCHANGED <<mode, nextId, uploadDir, outDir, resp, ro, roDir, cli, fn>>

ProcRaster(t) ==
    /\ mode = "web"
    /\ task[t].pc = "raster"
    /\ \/ task' = [task EXCEPT ![t] = ProcessPdfExcept]
       \/ \E n \in PageCounts :
            task' = [task EXCEPT ![t] =
                       [@ EXCEPT !.images = Rendered(n), !.pages = <<>>, !.i = 0,
                                 !.rasterCalls = @ + 1,
                                 !.pc = IF n = 0 THEN "collect_txt"
                                        ELSE "recognize"]]
    /\ UNCHANGED <<mode, nextId, uploadDir, outDir, resp, ro, roDir, cli, fn>>

ToThreadNotAwaited == "recognize"

\* text = await asyncio.to_thread(...): the coroutine is suspended until the
\* offloaded call is done
AwaitToThread == "awaiting"

\* the loop body up to the await: the recognition of the next image is offloaded
ProcRecognize(t) ==
    /\ mode = "web"
    /\ task[t].pc = "recognize"
    /\ task[t].recogCalls < Len(task[t].images)
    /\ task' = [task EXCEPT ![t].recogCalls = @ + 1, ![t].pc = AwaitToThread]
    /\ UNCHANGED <<mode, nextId, uploadDir, outDir, resp, ro, roDir, cli, fn>>

\* the offloaded call is done: its text is appended, or its exception is raised
\* at the await
ProcRecognized(t) ==
    /\ mode = "web"
    /\ task[t].pc = "awaiting"
    /\ LET f == task[t]
           img == f.images[f.i + 1]
       IN \E ok \in BOOLEAN :
            task' = [task EXCEPT ![t] =
                       IF ~ok THEN ProcessPdfExcept
                       ELSE [@ EXCEPT !.pages = LoopAppend(f.pages, f.i, Qwen(img)),
                                      !.i = f.i + 1,
                                      !.pc = IF f.i + 1 = Len(f.images)
                                             THEN "collect_txt" ELSE "recognize"]]
    /\ UNCHANGED <<mode, nextId, uploadDir, outDir, resp, ro, roDir, cli, fn>>

\* collect_results(pages, OUT_DIR, file_id): the text artifact, then the JSON one
ProcCollectTxt(t) ==
    /\ mode = "web"
    /\ task[t].pc = "collect_txt"
    /\ \/ /\ task' = [task EXCEPT ![t] = ProcessPdfExcept]
          /\ UNCHANGED outDir
       \/ /\ outDir' = outDir \cup {TxtFilename(t)}
          /\ task' = [task EXCEPT ![t].pc = "collect_json"]
    /\ UNCHANGED <<mode, nextId, uploadDir, resp, ro, roDir, cli, fn>>

ProcCollectJson(t) ==
    /\ mode = "web"
    /\ task[t].pc = "collect_json"
    /\ \/ /\ task' = [task EXCEPT ![t] = ProcessPdfExcept]
          /\ UNCHANGED outDir
       \/ /\ outDir' = outDir \cup {JsonFilename(t)}
          /\ task' = [task EXCEPT ![t].pc = "cleanup"]
    /\ UNCHANGED <<mode, nextId, uploadDir, resp, ro, roDir, cli, fn>>

CleanupBeforeCollect == "collect_txt"

\* where process_pdf calls cleanup_files: after collect_results has returned
CleanupPoint == "cleanup"

\* ocr_utils.cleanup_files(file_path); return txt_path, json_path
ProcCleanup(t) ==
    /\ mode = "web"
    /\ task[t].pc = CleanupPoint
    /\ uploadDir' = uploadDir \ {t}
    /\ task' = [task EXCEPT ![t] = ProcessPdfReturn]
    /\ UNCHANGED <<mode, nextId, outDir, resp, ro, roDir, cli, fn>>

\* ------------------------------------------------------------- upload_pdf
\* what the body of the try block raises
UploadRaise(ctype, size, save) ==
    IF ctype # "application/pdf" THEN [exc |-> "HTTPException", status |-> HTTP_400]
    ELSE IF size > MaxUploadBytes THEN [exc |-> "HTTPException", status |-> HTTP_413]
    ELSE IF save # "ok" THEN [exc |-> "Exception", status |-> 0]
    ELSE [exc |-> "none", status |-> 0]

UploadExceptGeneric(e) == HTTP_500

\* except HTTPException as e: raise e / except Exception: raise HTTPException(500)
UploadExcept(e) == IF e.exc = "HTTPException" THEN e.status ELSE HTTP_500

UploadResp(ctype, model, status, id) ==
    [op |-> "upload", ctype |-> ctype, model |-> model, status |-> status, id |-> id]

upload_pdf(ctype, size, model, save) ==
    /\ mode = "web"
    /\ nextId <= MaxTasks
    /\ LET e == UploadRaise(ctype, size, save)
       IN IF e.exc = "HTTPException"
          THEN /\ resp' = UploadResp(ctype, model, UploadExcept(e), 0)
               /\ UNCHANGED <<nextId, uploadDir, task>>
          ELSE /\ nextId' = nextId + 1
               /\ uploadDir' = IF save = "open_fails" THEN uploadDir
                               ELSE uploadDir \cup {nextId}
               /\ IF e.exc = "none"
                  THEN /\ task' = [task EXCEPT ![nextId] = CreateTask]
                       /\ resp' = UploadResp(ctype, model, HTTP_303, nextId)
                  ELSE /\ task' = task
                       /\ resp' = UploadResp(ctype, model, UploadExcept(e), 0)
    /\ UNCHANGED <<mode, outDir, ro, roDir, cli, fn>>

\* ------------------------------------------------- app/ocr_utils.py: run_ocr
RoFrame(n) ==
    [pc |-> "start", n |-> n, textual |-> "unset", images |-> <<>>, idx |-> 0,
     page_texts |-> <<>>, per_page |-> <<>>, rasterCalls |-> 0, readCalls |-> 0,
     saved |-> <<>>, saves |-> 0, exc |-> "none", conv |-> "unset",
     renderFailed |-> FALSE]

\* the call that raised out of run_ocr
Raised(frame, stage) == [frame EXCEPT !.pc = "raised", !.exc = stage]

\* extract_text_pdf(pdf_path)
ExtractTextPdf(n) == Join([k \in 1..n |-> PageText(k)], <<NL, NL>>)

\* page_txt = "\n".join(r[1] for r in result)
PageTxt(result) == Join([r \in 1..Len(result) |-> result[r][2]], <<NL>>)

\* page_json = [{"bbox": r[0], "text": r[1], "confidence": float(r[2])} for r in result]
PageJson(result) ==
    [r \in 1..Len(result) |->
        [bbox |-> result[r][1], text |-> result[r][2], confidence |-> result[r][3]]]

\* the calls of save_results an I/O fault can make raise ("none": no fault)
FailPoints == {"none", "mkdir", "txt", "json"}

\* out_dir.mkdir(parents=True, exist_ok=True) raises FileExistsError only without exist_ok
MkdirRaises(dir, exist_ok) == dir.exists /\ ~exist_ok

\* the call of save_results that raises, given the I/O fault failAt
SaveFailsAt(dir, failAt) == IF MkdirRaises(dir, TRUE) THEN "FileExistsError" ELSE failAt

WriteTextAppend(old, content) ==
    IF Len(old) = 0 THEN <<content>> ELSE <<old[1] \o content>>

\* path.write_text(content): the file holds content, whatever it held before
WriteText(old, content) == <<content>>

\* save_results(plain_text, page_json, out_dir): out_dir after the call
SaveResults(dir, plain_text, page_json, failAt) ==
    LET at == SaveFailsAt(dir, failAt)
    IN IF at \in {"mkdir", "FileExistsError"} THEN dir
       ELSE IF at = "txt" THEN [dir EXCEPT !.exists = TRUE]
       ELSE IF at = "json"
            THEN [dir EXCEPT !.exists = TRUE, !.txt = WriteText(dir.txt, plain_text)]
       ELSE [exists |-> TRUE,
             txt |-> WriteText(dir.txt, plain_text),
             json |-> WriteText(dir.json, page_json)]

\* the frame of run_ocr after save_results was called on dir
AfterSave(frame, dir, failAt) ==
    LET at == SaveFailsAt(dir, failAt)
    IN IF at = "none"
       THEN [frame EXCEPT !.pc = "returned", !.saves = @ + 1,
                          !.saved = <<"result.txt", "result.json">>]
       ELSE [Raised(frame, IF at = "FileExistsError" THEN at ELSE "save")
                EXCEPT !.saves = @ + 1, !.saved = <<>>]

\* the files of the first two pages that a PDF of n pages can be
FilesOf(n) == {f \in Files : f.cond = "ok" => Len(f.pages) = IF n < 2 THEN n ELSE 2}

RunOcrBranchAlwaysOcr(textual) == "raster"

\* if is_pdf_textual(pdf_path): ... # else -> rasterise + OCR
RunOcrBranch(textual) == IF textual THEN "extract" ELSE "raster"

RunOcrTextualJsonPerPage(n) == [k \in 1..n |-> <<>>]

\* the page_json argument of save_results on the textual path: []
RunOcrTextualJson(n) == <<>>

RunOcrClassify ==
    /\ mode = "lib"
    /\ ro.pc = "start"
    /\ \E file \in FilesOf(ro.n) :
         LET r == Classified(IsPdfTextual(file, MinChars))
         IN ro' = IF r = "raise" THEN Raised(ro, "classify")
                  ELSE [ro EXCEPT !.textual = r, !.pc = RunOcrBranch(r = "textual")]
    /\ UNCHANGED <<mode, webVars, roDir, cli, fn>>

RunOcrExtract ==
    /\ mode = "lib"
    /\ ro.pc = "extract"
    /\ \/ /\ ro' = Raised(ro, "extract")
          /\ UNCHANGED roDir
       \/ \E failAt \in FailPoints :
            /\ roDir' = SaveResults(roDir, ExtractTextPdf(ro.n), RunOcrTextualJson(ro.n), failAt)
            /\ ro' = AfterSave(ro, roDir, failAt)
    /\ UNCHANGED <<mode, webVars, cli, fn>>

\* convert_from_path(...): the page bitmaps, or an exception when rendering fails
ConvertFromPath(n, fails) ==
    IF fails THEN [kind |-> "raise", images |-> <<>>]
    ELSE [kind |-> "images", images |-> Rendered(n)]

\* app/ocr_utils.py: convert_pdf_to_images(pdf_path) has no try
ConvertPdfToImages(n, fails) == ConvertFromPath(n, fails)

\* ocr_utils.py: convert_pdf_to_images(pdf_path) prints the exception and falls
\* off the end of the function, returning None
ConvertPdfToImagesLegacy(n, fails) ==
    LET r == ConvertFromPath(n, fails)
    IN IF r.kind = "raise" THEN [kind |-> "None", images |-> <<>>] ELSE r

RunOcrRaster ==
    /\ mode = "lib"
    /\ ro.pc = "raster"
    /\ \E fails \in BOOLEAN :
         LET r == ConvertPdfToImages(ro.n, fails)
             called == [ro EXCEPT !.rasterCalls = @ + 1, !.renderFailed = fails,
                                  !.conv = r.kind]
         IN ro' = IF r.kind = "raise" THEN Raised(called, "raster")
                  ELSE [called EXCEPT !.images = r.images, !.pc = "ocr"]
    /\ UNCHANGED <<mode, webVars, roDir, cli, fn>>

OcrAppendSkipEmpty(acc, item) == IF Len(item) = 0 THEN acc ELSE Append(acc, item)

\* page_texts.append(page_txt) / per_page_results.append(page_json)
OcrAppend(acc, item) == Append(acc, item)

\* one iteration of the loop of ocr_images
RunOcrPage ==
    /\ mode = "lib"
    /\ ro.pc = "ocr"
    /\ ro.idx < Len(ro.images)
    /\ LET img == ro.images[ro.idx + 1]
           result == ReadText(img)
       IN \/ ro' = [Raised(ro, "readtext") EXCEPT !.readCalls = @ + 1]
          \/ ro' = [ro EXCEPT !.page_texts = OcrAppend(@, PageTxt(result)),
                              !.per_page = OcrAppend(@, PageJson(result)),
                              !.readCalls = @ + 1,
                              !.idx = @ + 1]
    /\ UNCHANGED <<mode, webVars, roDir, cli, fn>>

\* return "\n\n".join(page_texts), per_page_results; save_results(text, per_page, out_dir)
RunOcrSave ==
    /\ mode = "lib"
    /\ ro.pc = "ocr"
    /\ ro.idx = Len(ro.images)
    /\ \E failAt \in FailPoints :
         /\ roDir' = SaveResults(roDir, Join(ro.page_texts, <<NL, NL>>), ro.per_page, failAt)
         /\ ro' = AfterSave(ro, roDir, failAt)
    /\ UNCHANGED <<mode, webVars, cli, fn>>

\* the arguments run_ocr gave save_results
SavedText(frame) ==
    IF frame.textual = "textual" THEN ExtractTextPdf(frame.n)
    ELSE Join(frame.page_texts, <<NL, NL>>)
SavedJson(frame) ==
    IF frame.textual = "textual" THEN RunOcrTextualJson(frame.n) ELSE frame.per_page

\* save_results called again with the same text, detections and out_dir
SaveAgain ==
    /\ mode = "lib"
    /\ ro.pc = "returned"
    /\ ro.saves < MaxSaves
    /\ \E failAt \in FailPoints :
         /\ roDir' = SaveResults(roDir, SavedText(ro), SavedJson(ro), failAt)
         /\ ro' = AfterSave(ro, roDir, failAt)
    /\ UNCHANGED <<mode, webVars, cli, fn>>

\* ---------------------------------------------------- ocr_utils.py: main
CliFrame(exists, n) ==
    [pc |-> "start", exists |-> exists, n |-> n, images |-> <<>>, idx |-> 0,
     pages |-> <<>>, out |-> <<>>, conv |-> "unset", renderFailed |-> FALSE]

\* run_ocr_on_image(img, reader): "\n".join(readtext(detail=0)), "" on any exception
RunOcrOnImage(img, ok) ==
    IF ok THEN Join([r \in 1..Len(ReadText(img)) |-> ReadText(img)[r][2]], <<NL>>) ELSE <<>>

\* page_text = ""; page_text += text + "\n\n"; {"page_number": ..., "text": page_text.strip()}
CliEntry(page_num, text) ==
    [page_number |-> page_num, text |-> Strip(text \o <<NL, NL>>)]

CliStart ==
    /\ mode = "cli"
    /\ cli.pc = "start"
    /\ cli' = [cli EXCEPT !.pc = IF cli.exists THEN "convert" ELSE "returned"]
    /\ UNCHANGED <<mode, webVars, libVars, fn>>

\* images = convert_pdf_to_images(pdf_path, dpi=300); if not images: return
CliConvert ==
    /\ mode = "cli"
    /\ cli.pc = "convert"
    /\ \E fails \in BOOLEAN :
         LET r == ConvertPdfToImagesLegacy(cli.n, fails)
             called == [cli EXCEPT !.renderFailed = fails, !.conv = r.kind]
         IN cli' = IF r.kind = "raise" THEN [called EXCEPT !.pc = "raised"]
                   ELSE IF r.kind = "None" \/ Len(r.images) = 0
                        THEN [called EXCEPT !.pc = "returned"]
                   ELSE [called EXCEPT !.images = r.images, !.pc = "loop"]
    /\ UNCHANGED <<mode, webVars, libVars, fn>>

CliPage ==
    /\ mode = "cli"
    /\ cli.pc = "loop"
    /\ cli.idx < Len(cli.images)
    /\ \E ok \in BOOLEAN :
         cli' = [cli EXCEPT
                   !.pages = Append(@, CliEntry(cli.idx + 1,
                                                RunOcrOnImage(cli.images[cli.idx + 1], ok))),
                   !.idx = @ + 1]
    /\ UNCHANGED <<mode, webVars, libVars, fn>>

\* collect_results(result, output_path): the write may fail, which is printed
CliCollect ==
    /\ mode = "cli"
    /\ cli.pc = "loop"
    /\ cli.idx = Len(cli.images)
    /\ \E ok \in BOOLEAN :
         cli' = [cli EXCEPT !.out = IF ok THEN <<cli.pages>> ELSE @, !.pc = "returned"]
    /\ UNCHANGED <<mode, webVars, libVars, fn>>

\* ------------------------------------------------------- the specification
NoRo == [pc |-> "none"]
NoCli == [pc |-> "none"]
NoDir == [exists |-> FALSE, txt |-> <<>>, json |-> <<>>]
\* an output directory that holds the two files of an earlier run
StaleDir == [exists |-> TRUE, txt |-> <<Chars(88, 1)>>, json |-> << <<PageJson(ReadText(2))>> >>]

InitWeb ==
    /\ mode = "web"
    /\ nextId = 1
    /\ uploadDir = {}
    /\ outDir = {}
    /\ task = [t \in Ids |-> Absent]
    /\ resp = NoResp
    /\ ro = NoRo
    /\ roDir = NoDir
    /\ cli = NoCli
    /\ fn = NoFn

InitLib ==
    /\ mode = "lib"
    /\ nextId = 1
    /\ uploadDir = {}
    /\ outDir = {}
    /\ task = [t \in Ids |-> Absent]
    /\ resp = NoResp
    /\ \E n \in PageCounts : ro = RoFrame(n)
    /\ roDir \in {NoDir, [NoDir EXCEPT !.exists = TRUE], StaleDir}
    /\ cli = NoCli
    /\ fn = NoFn

InitCli ==
    /\ mode = "cli"
    /\ nextId = 1
    /\ uploadDir = {}
    /\ outDir = {}
    /\ task = [t \in Ids |-> Absent]
    /\ resp = NoResp
    /\ ro = NoRo
    /\ roDir = NoDir
    /\ \E e \in BOOLEAN, n \in PageCounts : cli = CliFrame(e, n)
    /\ fn = NoFn

InitFn ==
    /\ mode = "fn"
    /\ nextId = 1
    /\ uploadDir = {}
    /\ outDir = {}
    /\ task = [t \in Ids |-> Absent]
    /\ resp = NoResp
    /\ ro = NoRo
    /\ roDir = NoDir
    /\ cli = NoCli
    /\ \E name \in ClassifierNames, file \in Files :
          fn = [name |-> name, file |-> file, out |-> "pending"]

Init == InitWeb \/ InitLib \/ InitCli \/ InitFn

NextWeb ==
    \/ \E c \in ContentTypes, s \in Sizes, m \in BackendNames,
          sv \in {"ok", "open_fails", "write_fails"} : upload_pdf(c, s, m, sv)
    \/ \E t \in Ids : ProcClassify(t)
    \/ \E t \in Ids : ProcExtract(t)
    \/ \E t \in Ids : ProcRaster(t)
    \/ \E t \in Ids : ProcRecognize(t)
    \/ \E t \in Ids : ProcRecognized(t)
    \/ \E t \in Ids : ProcCollectTxt(t)
    \/ \E t \in Ids : ProcCollectJson(t)
    \/ \E t \in Ids : ProcCleanup(t)
    \/ \E t \in Ids : get_result(t)
    \/ \E f \in FNames : download_file(f)

NextLib ==
    RunOcrClassify \/ RunOcrExtract \/ RunOcrRaster \/ RunOcrPage \/ RunOcrSave \/ SaveAgain

NextCli == CliStart \/ CliConvert \/ CliPage \/ CliCollect

NextFn == CallClassifier

Next == NextWeb \/ NextLib \/ NextCli \/ NextFn

Spec == Init /\ [][Next]_vars

\* the steps of the process_pdf coroutine of task t
Pipeline(t) ==
    \/ ProcClassify(t) \/ ProcExtract(t) \/ ProcRaster(t) \/ ProcRecognize(t)
    \/ ProcRecognized(t)
    \/ ProcCollectTxt(t) \/ ProcCollectJson(t) \/ ProcCleanup(t)

\* the event loop runs every ready coroutine, and every call a coroutine makes
\* or awaits comes back (by returning or by raising)
SpecLive == Spec /\ \A t \in Ids : WF_vars(Pipeline(t))

\* ----------------------------------------------------------------- claims
Submitted(t) == task[t].pc # "absent"
Failed(t) == task[t].pc = "returned" /\ task[t].ret = None
ResultFiles(t) == {TxtFilename(t), JsonFilename(t)}
Canonical == UNION {ResultFiles(t) : t \in Ids}

\* C1: every status poll of a task id that a submission has returned shows
\* 'processing' or 'complete', never 'unknown / not found'.
C1_PollNeverUnknown ==
    (resp.op = "result" /\ Submitted(resp.id)) => resp.view \in {"processing", "links"}

\* C2: a status poll reports a task complete only if both its text artifact and
\* its JSON artifact exist, also while only result.txt has been written.
C2_CompleteNeedsBoth ==
    (resp.op = "result" /\ resp.view = "links") => ResultFiles(resp.id) \subseteq outDir

\* a poll served while the text artifact existed and the JSON artifact did not
C2_Witness ==
    /\ resp.op = "result"
    /\ resp.sawTxt /\ ~resp.sawJson
    /\ resp.view = "not_found"
    /\ task[resp.id].pc = "collect_json"

\* C3: when process_pdf fails at any stage the exception is logged and the
\* uploaded source file is removed: after the return it is not in UPLOAD_DIR.
C3_FailureRemovesSource ==
    \A t \in Ids : Failed(t) => (task[t].logged /\ t \notin uploadDir)

\* C4: a task whose pipeline failed stays in 'processing': process_pdf returned
\* (None, None), no result file of the task is written afterwards, and every
\* later status poll of it shows 'processing' (not complete, failed or unknown).
C4_FailedStaysProcessing ==
    [][\A t \in Ids : Failed(t) =>
          /\ Failed(t)'
          /\ outDir' \cap ResultFiles(t) = outDir \cap ResultFiles(t)
          /\ (resp' # resp /\ resp'.op = "result" /\ resp'.id = t)
                => resp'.view = "processing"]_vars

\* C5: once the classifier has reported a PDF textual, the run calls neither the
\* rasterizer nor a recognition backend, up to and after persisting its results.
C5_TextualNeverOcr ==
    /\ \A t \in Ids :
         task[t].textual = "textual" => (task[t].rasterCalls = 0 /\ task[t].recogCalls = 0)
    /\ (mode = "lib" /\ ro.textual = "textual") => (ro.rasterCalls = 0 /\ ro.readCalls = 0)

\* a textual task of the web pipeline whose two result files are persisted
C5_Witness ==
    \E t \in Ids :
        /\ task[t].textual = "textual"
        /\ task[t].pc = "cleanup"
        /\ ResultFiles(t) \subseteq outDir

\* C6: on the OCR path the page entries are the recognition results of the
\* rasterized pages, one per page and in page order, for any number of pages.
C6_PagePerImage ==
    /\ \A t \in Ids :
         LET f == task[t]
         IN f.textual = "scanned" =>
              /\ Len(f.pages) = f.i
              /\ f.pc \in {"collect_txt", "collect_json", "cleanup"}
                    => Len(f.pages) = Len(f.images)
              /\ \A k \in 1..Len(f.pages) :
                    f.pages[k] = [page |-> k, text |-> Qwen(f.images[k])]
    /\ (mode = "lib" /\ ro.textual = "scanned") =>
         /\ Len(ro.page_texts) = ro.idx
         /\ Len(ro.per_page) = ro.idx
         /\ ro.pc = "returned" => ro.idx = Len(ro.images)
         /\ \A k \in 1..ro.idx :
               /\ ro.page_texts[k] = PageTxt(ReadText(ro.images[k]))
               /\ ro.per_page[k] = PageJson(ReadText(ro.images[k]))
    /\ mode = "cli" =>
         /\ Len(cli.pages) = cli.idx
         /\ Len(cli.out) > 0 => Len(cli.out[1]) = Len(cli.images)
         /\ \A k \in 1..cli.idx :
               \E ok \in BOOLEAN :
                  cli.pages[k] = CliEntry(k, RunOcrOnImage(cli.images[k], ok))

\* an OCR-path task that has recognized every page of a PDF of MaxPages pages
C6_Witness ==
    \E t \in Ids :
        /\ task[t].textual = "scanned"
        /\ task[t].pc = "collect_txt"
        /\ Len(task[t].images) = MaxPages
        /\ Len(task[t].pages) = MaxPages

C8_DownloadOnlyArtifacts ==
    resp.op = "download" =>
        /\ resp.status \in {HTTP_200, HTTP_404}
        /\ resp.status = HTTP_404 => resp.served = {}
        /\ resp.status = HTTP_200 =>
              /\ resp.fname \in Canonical
              /\ resp.fname \in outDir
              /\ resp.served = {resp.fname}
        /\ (resp.fname \notin Canonical \/ resp.fname \notin outDir)
              => resp.status = HTTP_404

\* a request for the uploaded source of a task while that source is on disk
C8_Witness ==
    /\ resp.op = "download"
    /\ resp.fname = UploadName(resp.fname[1])
    /\ resp.fname[1] \in uploadDir
    /\ resp.status = HTTP_404

\* C9: an upload whose content type is not application/pdf is answered 400 and
\* changes nothing: no id, no file in UPLOAD_DIR, no pipeline.
C9_NonPdfRejected ==
    [][(resp' # resp /\ resp'.op = "upload" /\ resp'.ctype # "application/pdf") =>
          /\ resp'.status = HTTP_400
          /\ resp'.id = 0
          /\ UNCHANGED <<nextId, uploadDir, outDir, task>>]_vars

\* a rejected non-PDF upload
C9_Witness ==
    /\ resp.op = "upload"
    /\ resp.ctype = "text/plain"
    /\ resp.status = HTTP_400

\* C10: a submission naming an unrecognized backend is rejected with an error
\* and persists nothing: no source file, no result file, no pipeline.
C10_UnknownBackendRejected ==
    [][(resp' # resp /\ resp'.op = "upload" /\ resp'.model \notin KnownBackends) =>
          /\ resp'.status >= HTTP_400
          /\ resp'.id = 0
          /\ UNCHANGED <<uploadDir, outDir, task>>]_vars

\* a classifier call that has come back, by returning or by raising
Classifies == mode = "fn" /\ fn.out # "pending"

\* C11: is_pdf_textual never raises: on every input its outcome is True or
\* False, and a file that cannot be read or has no page at the inspected index
\* gives False
C11_ClassifierNeverRaises ==
    Classifies =>
        /\ fn.out \in {"True", "False"}
        /\ fn.file.cond # "ok" => fn.out = "False"

\* C17: the classifier answers True exactly when the stripped text of the
\* first page has at least MinChars characters, whatever the later pages hold
C17_ClassifierThreshold ==
    (Classifies /\ fn.file.cond = "ok" /\ Len(fn.file.pages) >= 1) =>
        (fn.out = "True" <=> Len(Strip(TextOrEmpty(fn.file.pages[1]))) >= MinChars)

\* a step that is a call of save_results
SaveCall == mode = "lib" /\ ro'.saves = ro.saves + 1

\* C12: save_results is idempotent: a call that returns leaves the directory
\* existing with exactly the given text and detections in the two files, a
\* repeated call with the same arguments leaves both files as the first call
\* left them, and no call fails because the directory or the files exist
C12_SaveIdempotent ==
    [][SaveCall =>
         /\ ro'.exc # "FileExistsError"
         /\ ro'.pc = "returned" =>
               /\ roDir'.exists
               /\ roDir'.txt = <<SavedText(ro')>>
               /\ roDir'.json = <<SavedJson(ro')>>
         /\ (ro.saves >= 1 /\ ro'.pc = "returned") => roDir' = roDir]_vars

C12_Witness ==
    /\ mode = "lib" /\ ro.pc = "returned" /\ ro.saves = 2
    /\ Len(roDir.txt[1]) > 0 /\ Len(roDir.json[1]) > 0

\* a step that serves a status poll of task t / a download of the name f
Polls(t) == resp' # resp /\ resp'.op = "result" /\ resp'.id = t
Downloads(f) == resp' # resp /\ resp'.op = "download" /\ resp'.fname = f

Lifecycle(t) ==
    LET view == GetResultView(TxtFilename(t) \in outDir, JsonFilename(t) \in outDir)
    IN IF view = "links" THEN "complete"
       ELSE IF view = "processing" THEN "processing"
       ELSE "unknown"

Rank(state) == IF state = "unknown" THEN 0 ELSE IF state = "processing" THEN 1 ELSE 2

\* C14: the lifecycle state derived from the filesystem only moves forward: a
\* submitted task is never 'unknown', a complete task never goes back, and no
\* step removes a result file of a task
C14_LifecycleForward ==
    [][\A t \in Ids :
         /\ Submitted(t)' => Lifecycle(t)' # "unknown"
         /\ Rank(Lifecycle(t)') >= Rank(Lifecycle(t))
         /\ outDir \cap ResultFiles(t) \subseteq outDir']_vars

\* C15: a rendering failure leaves convert_pdf_to_images as an exception, never
\* as a returned value, and the run that called it is aborted by that exception
C15_RasterFailureRaises ==
    /\ (mode = "lib" /\ ro.renderFailed) => (ro.conv = "raise" /\ ro.pc = "raised")
    /\ (mode = "cli" /\ cli.renderFailed) => (cli.conv = "raise" /\ cli.pc = "raised")

\* process_pdf of task t returned its two paths, with both artifacts on disk
Completed(t) ==
    task[t].pc = "returned" /\ task[t].ret = "paths" /\ ResultFiles(t) \subseteq outDir

\* C16: under a fair scheduler every submitted task whose stages do not raise
\* eventually completes: both artifacts are written and stay, so that every
\* later poll shows the complete view
C16_SuccessfulRunCompletes ==
    \A t \in Ids : Submitted(t) ~> (Failed(t) \/ [](Completed(t) /\ Lifecycle(t) = "complete"))

C16_Witness == \A t \in Ids : Completed(t) /\ Lifecycle(t) = "complete"

\* C18: the stages of one task never overlap: a branch starts only after the
\* classifier has answered, recognition only after the one rasterizer call, at
\* most one recognition call is outstanding and only while the coroutine awaits
\* it, and persistence starts only when every page has been recognized; the
\* same order holds in run_ocr
C18_StagesSequential ==
    /\ \A t \in Ids :
         LET f == task[t]
         IN /\ f.pc \in {"extract", "raster"} => f.textual # "unset"
            /\ f.rasterCalls <= 1
            /\ f.recogCalls > 0 => (f.textual = "scanned" /\ f.rasterCalls = 1)
            /\ f.textual = "scanned" =>
                  /\ f.recogCalls - Len(f.pages) = IF f.pc = "awaiting" THEN 1 ELSE 0
                  /\ f.pc \in {"collect_txt", "collect_json", "cleanup"} =>
                        (f.recogCalls = Len(f.images) /\ Len(f.pages) = Len(f.images))
    /\ mode = "lib" =>
         /\ ro.pc \in {"extract", "raster"} => ro.textual # "unset"
         /\ ro.readCalls > 0 => (ro.textual = "scanned" /\ ro.rasterCalls = 1)
         /\ (ro.saves > 0 /\ ro.textual = "scanned") => ro.idx = Len(ro.images)

\* two tasks in flight at once, each awaiting a recognition call
C18_Witness ==
    /\ \A t \in 1..2 : task[t].pc = "awaiting" /\ task[t].recogCalls = 1
    /\ task[1].images # task[2].images

\* C19: whenever the source file of a submitted task is gone from UPLOAD_DIR,
\* both result artifacts of the task are already in OUT_DIR
C19_SourceOutlivesResults ==
    \A t \in Ids : (Submitted(t) /\ t \notin uploadDir) => ResultFiles(t) \subseteq outDir

C19_Witness ==
    \E t \in Ids : Submitted(t) /\ t \notin uploadDir /\ ResultFiles(t) \subseteq outDir


====
